---------------------------- MODULE Spec2Model ----------------------------
(***************************************************************************)
(* Model of cmd/buildctl/debug/workers.go: the `buildctl debug workers`    *)
(* command.  listWorkers fetches the worker set and renders it with one of *)
(* three renderers: a Go template (--format), the verbose dump (--verbose) *)
(* or the two-column table.                                                *)
(*                                                                         *)
(* An output line is kept as the Fprintf call that produced it: its format *)
(* string and its arguments, already converted to text.  The tabwriter is  *)
(* a queue of such lines: it hands them to the underlying writer when      *)
(* Flush is called and, on its own, when a line without a tab ends.  The   *)
(* padding the tabwriter inserts between cells is not modelled.            *)
(***************************************************************************)
EXTENDS Integers, Sequences, FiniteSets, TLC

(***************************************************************************)
(* Bounds of the model.                                                    *)
(***************************************************************************)
MaxWorkers == 3
MaxPlatforms == 2
MaxDevices == 2
MaxRules == 2

(***************************************************************************)
(* Sequence helpers.                                                       *)
(***************************************************************************)
SeqsUpTo(S, n) == UNION {[1..k -> S] : k \in 0..n}

InsertAt(s, i, x) == SubSeq(s, 1, i - 1) \o <<x>> \o SubSeq(s, i, Len(s))

RECURSIVE Flatten(_)
Flatten(ss) == IF ss = <<>> THEN <<>> ELSE Head(ss) \o Flatten(Tail(ss))

\* The elements of a set of naturals as an ascending sequence.
RECURSIVE Ascending(_)
Ascending(S) ==
    IF S = {} THEN <<>>
    ELSE LET m == CHOOSE x \in S : \A y \in S : x <= y
         IN <<m>> \o Ascending(S \ {m})

(***************************************************************************)
(* Map keys.  Go compares strings byte by byte; KeyOrder lists the keys of *)
(* the model in that order ("H" = 0x48 sorts before the lower-case keys).  *)
(***************************************************************************)
KeyOrder == <<"Host", "arch", "zone">>
Keys == {KeyOrder[i] : i \in 1..Len(KeyOrder)}
Rank(k) == CHOOSE i \in 1..Len(KeyOrder) : KeyOrder[i] = k
KeyLess(a, b) == Rank(a) < Rank(b)

\* Every order in which a map's iteration may visit the keys.
IterationOrders == {p \in [1..Len(KeyOrder) -> Keys] :
                    \A i, j \in 1..Len(KeyOrder) : i # j => p[i] # p[j]}

RECURSIVE Restrict(_, _)
Restrict(order, S) ==
    IF order = <<>> THEN <<>>
    ELSE IF Head(order) \in S THEN <<Head(order)>> \o Restrict(Tail(order), S)
    ELSE Restrict(Tail(order), S)

\* maps.Keys(m): the keys of m in the iteration order of this run.
MapKeys(m, order) == Restrict(order, DOMAIN m)

RECURSIVE InsertSorted(_, _)
InsertSorted(k, s) ==
    IF s = <<>> THEN <<k>>
    ELSE IF KeyLess(k, Head(s)) THEN <<k>> \o s
    ELSE <<Head(s)>> \o InsertSorted(k, Tail(s))

RECURSIVE SlicesSorted(_)
SlicesSorted(s) ==
    IF s = <<>> THEN <<>> ELSE InsertSorted(Head(s), SlicesSorted(Tail(s)))

\* Variant: the keys as the map yields them.
sortedKeysUnsorted(m, order) == MapKeys(m, order)

sortedKeys(m, order) == SlicesSorted(MapKeys(m, order))

(***************************************************************************)
(* Platforms.                                                              *)
(***************************************************************************)
Platform(os, arch, variant) == [OS |-> os, Architecture |-> arch, Variant |-> variant]

Platforms == {Platform("linux", "amd64", ""),
              Platform("linux", "aarch64", "v8"),
              Platform("linux", "arm", "")}

\* platforms.Normalize: architecture aliases and default variants.
Normalize(p) ==
    CASE p.Architecture \in {"x86_64", "x86-64", "amd64"} ->
            Platform(p.OS, "amd64", IF p.Variant = "v1" THEN "" ELSE p.Variant)
      [] p.Architecture \in {"aarch64", "arm64"} ->
            Platform(p.OS, "arm64", IF p.Variant \in {"8", "v8"} THEN "" ELSE p.Variant)
      [] p.Architecture = "arm" ->
            Platform(p.OS, "arm", IF p.Variant \in {"", "7"} THEN "v7" ELSE p.Variant)
      [] OTHER -> p

\* platforms.Format: os/arch[/variant].
Format(p) ==
    IF p.OS = "" THEN "unknown"
    ELSE p.OS \o "/" \o p.Architecture
            \o (IF p.Variant = "" THEN "" ELSE "/" \o p.Variant)

RECURSIVE StringsJoin(_, _)
StringsJoin(strs, sep) ==
    IF strs = <<>> THEN ""
    ELSE IF Len(strs) = 1 THEN strs[1]
    ELSE strs[1] \o sep \o StringsJoin(Tail(strs), sep)

\* Variant: the platforms formatted as received.
joinPlatformsRaw(p) ==
    StringsJoin([i \in 1..Len(p) |-> Format(p[i])], ",")

joinPlatforms(p) ==
    StringsJoin([i \in 1..Len(p) |-> Format(Normalize(p[i]))], ",")

(***************************************************************************)
(* The worker records of client.WorkerInfo that the command reads.         *)
(***************************************************************************)
MapOver(S) == [k \in S |-> "v"]

Device(onDemand, autoAllow, annotations) ==
    [Name |-> "vendor.com/gpu", OnDemand |-> onDemand, AutoAllow |-> autoAllow,
     Annotations |-> annotations]

Devices == {Device(od, aa, MapOver({})) : od, aa \in BOOLEAN}
             \cup {Device(FALSE, TRUE, MapOver({"zone", "Host"}))}

Rule(all, filter, keep, reserved, minFree, maxUsed) ==
    [All |-> all, Filter |-> filter, KeepDuration |-> keep, ReservedSpace |-> reserved,
     MinFreeSpace |-> minFree, MaxUsedSpace |-> maxUsed]

\* Durations are counted in seconds, space in bytes.
Rules == {Rule(FALSE, <<>>, 0, 0, 0, 0),
          Rule(FALSE, <<"type==source.local", "type==exec.cachemount">>, 0, 0, 0, 0),
          Rule(FALSE, <<>>, 172800, 0, 0, 0),
          Rule(FALSE, <<>>, 0, 512, 0, 0),
          Rule(FALSE, <<>>, 0, 0, 256, 0),
          Rule(FALSE, <<>>, 0, 0, 0, 768),
          Rule(TRUE, <<"type==regular">>, 90, 512, 256, 768)}

Version == [Package |-> "github.com/moby/buildkit", Version |-> "v0.13.0", Revision |-> "abc"]

Worker(id, platforms, labels, devices, rules) ==
    [ID |-> id, Platforms |-> platforms, BuildkitVersion |-> Version, Labels |-> labels,
     CDIDevices |-> devices, GCPolicy |-> rules]

PlainWorkers == {Worker(id, <<Platform("linux", "amd64", "")>>, MapOver({}), <<>>, <<>>) :
                    id \in {"w1", "w2"}}

\* Workers that differ from a plain one in one of the fields.
DetailedWorkers ==
    {Worker("w3", p, MapOver({}), <<>>, <<>>) : p \in SeqsUpTo(Platforms, MaxPlatforms)}
    \cup {Worker("w3", <<>>, MapOver(S), <<>>, <<>>) : S \in SUBSET Keys}
    \cup {Worker("w3", <<>>, MapOver({"arch"}), d, <<>>) : d \in SeqsUpTo(Devices, MaxDevices)}
    \cup {Worker("w3", <<>>, MapOver({}), <<>>, r) : r \in SeqsUpTo(Rules, MaxRules)}

\* The worker sets of the model: plain workers, or one detailed worker at any
\* position among copies of a plain one.
Companion == Worker("w1", <<Platform("linux", "amd64", "")>>, MapOver({}), <<>>, <<>>)

WorkerSets ==
    SeqsUpTo(PlainWorkers, MaxWorkers)
    \cup UNION {{InsertAt(s, i, w) : i \in 1..(Len(s) + 1), w \in DetailedWorkers} :
                    s \in SeqsUpTo({Companion}, MaxWorkers - 1)}

(***************************************************************************)
(* Output lines and the conversions of the verbs used.                     *)
(***************************************************************************)
Line(fmt, args) == [fmt |-> fmt, args |-> args]

\* Text written as it is, by the template engine.
Text(t) == Line("%s", <<t>>)

\* %v of a bool.
FormatBool(b) == IF b THEN "true" ELSE "false"

\* time.Duration.String(), for a duration of d seconds.
DurationString(d) ==
    LET h == d \div 3600
        m == (d % 3600) \div 60
        sec == d % 60
    IN IF h > 0 THEN ToString(h) \o "h" \o ToString(m) \o "m" \o ToString(sec) \o "s"
       ELSE IF m > 0 THEN ToString(m) \o "m" \o ToString(sec) \o "s"
       ELSE ToString(sec) \o "s"

\* %g of units.Bytes, for the counts of the model, all below the first unit step.
FormatBytes(n) == ToString(n) \o "B"

(***************************************************************************)
(* printWorkersVerbose: the lines of one worker.  order is the iteration   *)
(* order of the maps during this call.                                     *)
(***************************************************************************)
LabelLines(wi, order) ==
    LET ks == sortedKeys(wi.Labels, order)
    IN [i \in 1..Len(ks) |-> Line("\t%s:\t%s\n", <<ks[i], wi.Labels[ks[i]]>>)]

\* Variant: each flag that is set prints its own line.
AdmissionLineBoth(d) ==
    (IF d.OnDemand THEN <<Line("\tOnDemand:\t%v\n", <<FormatBool(d.OnDemand)>>)>> ELSE <<>>)
    \o (IF d.AutoAllow \/ ~d.OnDemand
        THEN <<Line("\tAutoAllow:\t%v\n", <<FormatBool(d.AutoAllow)>>)>> ELSE <<>>)

AdmissionLine(d) ==
    IF d.OnDemand
    THEN <<Line("\tOnDemand:\t%v\n", <<FormatBool(d.OnDemand)>>)>>
    ELSE <<Line("\tAutoAllow:\t%v\n", <<FormatBool(d.AutoAllow)>>)>>

DeviceLines(d, order) ==
    LET ks == sortedKeys(d.Annotations, order)
    IN <<Line("\tName:\t%s\n", <<d.Name>>)>>
       \o AdmissionLine(d)
       \o [i \in 1..Len(ks) |->
              Line("\tAnnotations:\t%s:\t%s\n", <<ks[i], d.Annotations[ks[i]]>>)]

DevicesSection(wi, order) ==
    IF Len(wi.CDIDevices) > 0
    THEN <<Line("Devices:\n", <<>>)>>
         \o Flatten([i \in 1..Len(wi.CDIDevices) |-> DeviceLines(wi.CDIDevices[i], order)])
         \o <<Line("\n", <<>>)>>
    ELSE <<>>

\* Variant: the reserved space is printed whatever its value.
RuleLinesUngated(i, rule) ==
    <<Line("GC Policy rule#%d:\n", <<ToString(i)>>),
      Line("\tAll:\t%v\n", <<FormatBool(rule.All)>>)>>
    \o (IF Len(rule.Filter) > 0
        THEN <<Line("\tFilters:\t%s\n", <<StringsJoin(rule.Filter, " ")>>)>> ELSE <<>>)
    \o (IF rule.KeepDuration > 0
        THEN <<Line("\tKeep duration:\t%v\n", <<DurationString(rule.KeepDuration)>>)>> ELSE <<>>)
    \o <<Line("\tReserved space:\t%g\n", <<FormatBytes(rule.ReservedSpace)>>)>>
    \o (IF rule.MinFreeSpace > 0
        THEN <<Line("\tMinimum free space:\t%g\n", <<FormatBytes(rule.MinFreeSpace)>>)>> ELSE <<>>)
    \o (IF rule.MaxUsedSpace > 0
        THEN <<Line("\tMaximum used space:\t%g\n", <<FormatBytes(rule.MaxUsedSpace)>>)>> ELSE <<>>)

\* i is the index of the range loop, from 0.
RuleLines(i, rule) ==
    <<Line("GC Policy rule#%d:\n", <<ToString(i)>>),
      Line("\tAll:\t%v\n", <<FormatBool(rule.All)>>)>>
    \o (IF Len(rule.Filter) > 0
        THEN <<Line("\tFilters:\t%s\n", <<StringsJoin(rule.Filter, " ")>>)>> ELSE <<>>)
    \o (IF rule.KeepDuration > 0
        THEN <<Line("\tKeep duration:\t%v\n", <<DurationString(rule.KeepDuration)>>)>> ELSE <<>>)
    \o (IF rule.ReservedSpace > 0
        THEN <<Line("\tReserved space:\t%g\n", <<FormatBytes(rule.ReservedSpace)>>)>> ELSE <<>>)
    \o (IF rule.MinFreeSpace > 0
        THEN <<Line("\tMinimum free space:\t%g\n", <<FormatBytes(rule.MinFreeSpace)>>)>> ELSE <<>>)
    \o (IF rule.MaxUsedSpace > 0
        THEN <<Line("\tMaximum used space:\t%g\n", <<FormatBytes(rule.MaxUsedSpace)>>)>> ELSE <<>>)

VerboseLines(wi, order) ==
    <<Line("ID:\t%s\n", <<wi.ID>>),
      Line("Platforms:\t%s\n", <<joinPlatforms(wi.Platforms)>>),
      Line("BuildKit:\t%s %s %s\n", <<wi.BuildkitVersion.Package, wi.BuildkitVersion.Version,
                                       wi.BuildkitVersion.Revision>>),
      Line("Labels:\n", <<>>)>>
    \o LabelLines(wi, order)
    \o DevicesSection(wi, order)
    \o Flatten([i \in 1..Len(wi.GCPolicy) |-> RuleLines(i - 1, wi.GCPolicy[i])])
    \o <<Line("\n", <<>>)>>

(***************************************************************************)
(* printWorkersTable: the header and the row of one worker.                *)
(***************************************************************************)
TableHeaderLine == Line("ID\tPLATFORMS\n", <<>>)

TableRowLine(wi) == Line("%s\t%s\n", <<wi.ID, joinPlatforms(wi.Platforms)>>)

(***************************************************************************)
(* Templates.  A parsed template is the sequence of its nodes.             *)
(***************************************************************************)
Formats == {"", "{{len .}}", "{{range .}}{{.ID}} {{end}}", "workers: {{.Nope}}", "{{len ."}

\* bccommon.ParseTemplate: the parsed template, or a syntax error.
ParseTemplate(format) ==
    CASE format = "{{len .}}" -> [err |-> "nil", nodes |-> <<[kind |-> "len"]>>]
      [] format = "{{range .}}{{.ID}} {{end}}" ->
            [err |-> "nil", nodes |-> <<[kind |-> "rangeID", sep |-> " "]>>]
      [] format = "workers: {{.Nope}}" ->
            [err |-> "nil", nodes |-> <<[kind |-> "text", text |-> "workers: "],
                                       [kind |-> "field", name |-> "Nope"]>>]
      [] OTHER -> [err |-> "parse", nodes |-> <<>>]

\* What one node writes when it is evaluated with data as the dot.
NodeOutput(node, data) ==
    CASE node.kind = "text" -> <<Text(node.text)>>
      [] node.kind = "len" -> <<Text(ToString(Len(data)))>>
      [] node.kind = "rangeID" ->
            Flatten([i \in 1..Len(data) |-> <<Text(data[i].ID), Text(node.sep)>>])
      [] OTHER -> <<>>

\* A slice has no fields: evaluating a field of it fails.
NodeFails(node, data) == node.kind = "field"

\* text/template Execute with data as the dot: the output written up to the
\* first node that fails, and whether a node failed.
RECURSIVE TemplateExecute(_, _)
TemplateExecute(nodes, data) ==
    IF nodes = <<>> THEN [out |-> <<>>, err |-> "nil"]
    ELSE IF NodeFails(Head(nodes), data) THEN [out |-> <<>>, err |-> "exec"]
    ELSE LET rest == TemplateExecute(Tail(nodes), data)
         IN [out |-> NodeOutput(Head(nodes), data) \o rest.out, err |-> rest.err]

(***************************************************************************)
(* State.                                                                  *)
(***************************************************************************)
VARIABLES
    workers,     \* the result of c.ListWorkers
    format,      \* --format
    verbose,     \* --verbose
    appWriter,   \* the writer clicontext.App.Writer is: os.Stdout or another one
    faulty,      \* the writer that rejects every write, or "none"
    pc,          \* the position in listWorkers
    tmpl,        \* the parsed template
    idx,         \* the index of the range loop over the workers, from 1
    tw,          \* the lines queued in the tabwriter
    sink,        \* what each writer has received
    err,         \* the error listWorkers returns
    failed,      \* whether a step of the renderer has failed
    ran,         \* the renderers that have run in this call
    flushes,     \* the calls of tw.Flush in this call
    executions,  \* the calls of tmpl.Execute in this call
    calls,       \* the number of the call
    first        \* the output and error of the first call

vars == <<workers, format, verbose, appWriter, faulty, pc, tmpl, idx, tw, sink, err,
          failed, ran, flushes, executions, calls, first>>

input == <<workers, format, verbose, appWriter, faulty>>

Writers == {"stdout", "custom"}

NoOutput == [w \in Writers |-> <<>>]

Init ==
    /\ workers \in WorkerSets
    /\ format \in Formats
    /\ verbose \in BOOLEAN
    /\ appWriter \in Writers
    /\ faulty \in {"none", "stdout", appWriter}
    /\ pc = "start"
    /\ tmpl = <<>>
    /\ idx = 1
    /\ tw = <<>>
    /\ sink = NoOutput
    /\ err = "nil"
    /\ failed = FALSE
    /\ ran = {}
    /\ flushes = 0
    /\ executions = 0
    /\ calls = 1
    /\ first = [out |-> NoOutput, err |-> "nil"]

\* A write of lines to writer w: what the writer holds afterwards.
Written(w, lines) == IF w = faulty THEN sink ELSE [sink EXCEPT ![w] = @ \o lines]

WriteFails(w, lines) == w = faulty /\ lines # <<>>

(***************************************************************************)
(* listWorkers, lines 51-72: the choice of the renderer.                   *)
(***************************************************************************)
\* Variant: --verbose is looked at before --format.
SelectRendererVerboseFirst(f, v) ==
    IF v THEN "verbose" ELSE IF f # "" THEN "template" ELSE "table"

SelectRenderer(f, v) ==
    IF f # "" THEN "template" ELSE IF v THEN "verbose" ELSE "table"

ListWorkers ==
    /\ pc = "start"
    /\ pc' = CASE SelectRenderer(format, verbose) = "template" -> "parse"
               [] SelectRenderer(format, verbose) = "verbose" -> "verbose"
               [] OTHER -> "table"
    /\ UNCHANGED <<input, tmpl, idx, tw, sink, err, failed, ran, flushes, executions,
                   calls, first>>

(***************************************************************************)
(* listWorkers, lines 55-63: the template renderer.                        *)
(***************************************************************************)
ParseFormat ==
    /\ pc = "parse"
    /\ ran' = ran \cup {"template"}
    /\ LET r == ParseTemplate(format)
       IN IF r.err # "nil"
          THEN /\ err' = r.err
               /\ failed' = TRUE
               /\ pc' = "done"
               /\ tmpl' = tmpl
          ELSE /\ tmpl' = r.nodes
               /\ pc' = "execute"
               /\ UNCHANGED <<err, failed>>
    /\ UNCHANGED <<input, idx, tw, sink, flushes, executions, calls, first>>

\* Variant: the template is given a single worker.
TemplateDataEach(ws) == IF ws = <<>> THEN ws ELSE <<ws[1]>>

\* The value the template is executed with.
TemplateData(ws) == ws

ExecuteTemplate ==
    /\ pc = "execute"
    /\ ran' = ran \cup {"template"}
    /\ executions' = executions + 1
    /\ LET r == TemplateExecute(tmpl, TemplateData(workers))
       IN IF WriteFails(appWriter, r.out)
          THEN /\ sink' = sink
               /\ err' = "write"
               /\ failed' = TRUE
               /\ pc' = "done"
          ELSE /\ sink' = Written(appWriter, r.out)
               /\ IF r.err # "nil"
                  THEN err' = r.err /\ failed' = TRUE /\ pc' = "done"
                  ELSE pc' = "newline" /\ UNCHANGED <<err, failed>>
    /\ UNCHANGED <<input, tmpl, idx, tw, flushes, calls, first>>

TrailingNewline == <<Line("\n", <<>>)>>

WriteNewline ==
    /\ pc = "newline"
    /\ ran' = ran \cup {"template"}
    /\ sink' = Written(appWriter, TrailingNewline)
    /\ err' = IF WriteFails(appWriter, TrailingNewline) THEN "write" ELSE "nil"
    /\ failed' = (failed \/ WriteFails(appWriter, TrailingNewline))
    /\ pc' = "done"
    /\ UNCHANGED <<input, tmpl, idx, tw, flushes, executions, calls, first>>

(***************************************************************************)
(* The tabwriter over os.Stdout of line 66.                                *)
(***************************************************************************)
\* The lines of the command that hold a single cell (no tab).
SingleCell(line) == line.fmt \in {"Labels:\n", "Devices:\n", "GC Policy rule#%d:\n", "\n"}

\* tabwriter.Writer.Write of one line, on the queue q with out the content of
\* os.Stdout: the line is queued, and a line of a single cell makes the
\* tabwriter write its queue out.  When that write is rejected the queue is
\* kept and Write returns the error.
TabwriterWrite(q, out, bad, line) ==
    IF SingleCell(line)
    THEN IF faulty = "stdout"
         THEN [q |-> Append(q, line), out |-> out, bad |-> TRUE]
         ELSE [q |-> <<>>, out |-> out \o Append(q, line), bad |-> bad]
    ELSE [q |-> Append(q, line), out |-> out, bad |-> bad]

\* The Fprintf calls of lines, one after the other; their errors are dropped.
RECURSIVE Fprint(_, _, _, _)
Fprint(q, out, bad, lines) ==
    IF lines = <<>> THEN [q |-> q, out |-> out, bad |-> bad]
    ELSE LET r == TabwriterWrite(q, out, bad, Head(lines))
         IN Fprint(r.q, r.out, r.bad, Tail(lines))

(***************************************************************************)
(* printWorkersTable.                                                      *)
(***************************************************************************)
PrintTableHeader ==
    /\ pc = "table"
    /\ ran' = ran \cup {"table"}
    /\ LET r == Fprint(tw, sink["stdout"], failed, <<TableHeaderLine>>)
       IN /\ tw' = r.q
          /\ sink' = [sink EXCEPT !["stdout"] = r.out]
          /\ failed' = r.bad
    /\ idx' = 1
    /\ pc' = "rows"
    /\ UNCHANGED <<input, tmpl, err, flushes, executions, calls, first>>

PrintTableRow ==
    /\ pc = "rows"
    /\ idx <= Len(workers)
    /\ ran' = ran \cup {"table"}
    /\ LET r == Fprint(tw, sink["stdout"], failed, <<TableRowLine(workers[idx])>>)
       IN /\ tw' = r.q
          /\ sink' = [sink EXCEPT !["stdout"] = r.out]
          /\ failed' = r.bad
    /\ idx' = idx + 1
    /\ UNCHANGED <<input, pc, tmpl, err, flushes, executions, calls, first>>

\* Variant: the renderer returns without calling Flush.
FlushTableKeepsQueue ==
    /\ pc = "rows"
    /\ idx > Len(workers)
    /\ ran' = ran \cup {"table"}
    /\ err' = "nil"
    /\ pc' = "done"
    /\ UNCHANGED <<input, tmpl, idx, tw, sink, failed, flushes, executions, calls, first>>

\* tw.Flush followed by the return of listWorkers, line 73: the queue is
\* written out and emptied, also when the write is rejected, and the error of
\* Flush is dropped.
FlushTable ==
    /\ pc = "rows"
    /\ idx > Len(workers)
    /\ ran' = ran \cup {"table"}
    /\ flushes' = flushes + 1
    /\ sink' = Written("stdout", tw)
    /\ failed' = (failed \/ WriteFails("stdout", tw))
    /\ tw' = <<>>
    /\ err' = "nil"
    /\ pc' = "done"
    /\ UNCHANGED <<input, tmpl, idx, executions, calls, first>>

(***************************************************************************)
(* printWorkersVerbose, on the same tabwriter.                             *)
(***************************************************************************)
PrintVerboseWorker ==
    /\ pc = "verbose"
    /\ idx <= Len(workers)
    /\ ran' = ran \cup {"verbose"}
    /\ \E order \in IterationOrders :
          LET r == Fprint(tw, sink["stdout"], failed, VerboseLines(workers[idx], order))
          IN /\ tw' = r.q
             /\ sink' = [sink EXCEPT !["stdout"] = r.out]
             /\ failed' = r.bad
    /\ idx' = idx + 1
    /\ UNCHANGED <<input, pc, tmpl, err, flushes, executions, calls, first>>

FlushVerbose ==
    /\ pc = "verbose"
    /\ idx > Len(workers)
    /\ ran' = ran \cup {"verbose"}
    /\ flushes' = flushes + 1
    /\ sink' = Written("stdout", tw)
    /\ failed' = (failed \/ WriteFails("stdout", tw))
    /\ tw' = <<>>
    /\ err' = "nil"
    /\ pc' = "done"
    /\ UNCHANGED <<input, tmpl, idx, executions, calls, first>>

(***************************************************************************)
(* The command is run again on the same input.                             *)
(***************************************************************************)
Again ==
    /\ pc = "done"
    /\ calls = 1
    /\ first' = [out |-> sink, err |-> err]
    /\ calls' = 2
    /\ pc' = "start"
    /\ tmpl' = <<>>
    /\ idx' = 1
    /\ tw' = <<>>
    /\ sink' = NoOutput
    /\ err' = "nil"
    /\ failed' = FALSE
    /\ ran' = {}
    /\ flushes' = 0
    /\ executions' = 0
    /\ UNCHANGED input

Next ==
    \/ ListWorkers
    \/ ParseFormat
    \/ ExecuteTemplate
    \/ WriteNewline
    \/ PrintTableHeader
    \/ PrintTableRow
    \/ FlushTable
    \/ PrintVerboseWorker
    \/ FlushVerbose

Spec == Init /\ [][Next]_vars

NextTwice == Next \/ Again

SpecTwice == Init /\ [][NextTwice]_vars

(***************************************************************************)
(* Properties.                                                             *)
(***************************************************************************)
\* The renderer the configuration asks for.
ExpectedRenderer == IF format # "" THEN "template" ELSE IF verbose THEN "verbose" ELSE "table"

Newline == Line("\n", <<>>)

\* C1: one call runs exactly one renderer: the template renderer when a
\* template is given (whatever verbose is), otherwise the verbose renderer
\* when verbose is set, otherwise the table renderer; never two, and never
\* none once the call has returned.
C1_ExactlyOneRenderer ==
    /\ ran \subseteq {ExpectedRenderer}
    /\ pc = "done" => ran = {ExpectedRenderer}

C1_Witness ==
    /\ pc = "done"
    /\ format # ""
    /\ verbose
    /\ ran = {"template"}

\* C2: when a step of the chosen renderer has failed (a write the writer
\* rejected, a template that does not parse or does not expand), the call
\* returns a non-nil error.
C2_FailuresAreReturned ==
    (pc = "done" /\ failed) => err # "nil"

\* C3: all the output of a call goes to the one writer the command was
\* given, App.Writer, in every mode; no other writer receives anything.
C3_SingleWriter ==
    \A w \in Writers \ {appWriter} : sink[w] = <<>>

RECURSIVE C4_CommaJoin(_)
C4_CommaJoin(strs) ==
    IF strs = <<>> THEN ""
    ELSE IF Len(strs) = 1 THEN strs[1]
    ELSE C4_CommaJoin(SubSeq(strs, 1, Len(strs) - 1)) \o "," \o strs[Len(strs)]

C4_PlatformColumn(wi) ==
    C4_CommaJoin([i \in 1..Len(wi.Platforms) |-> Format(Normalize(wi.Platforms[i]))])

\* C4: in table mode the output is the header line followed by one row per
\* worker, in the order of the workers, row i holding the ID of worker i and
\* the comma-join of its normalized platform strings in their order (the
\* empty string for no platforms): 1 + Len(workers) lines.
C4_TableOutput ==
    (ExpectedRenderer = "table" /\ pc = "done" /\ faulty # "stdout") =>
        /\ Len(sink["stdout"]) = 1 + Len(workers)
        /\ sink["stdout"][1] = Line("ID\tPLATFORMS\n", <<>>)
        /\ \A i \in 1..Len(workers) :
              sink["stdout"][i + 1] =
                  Line("%s\t%s\n", <<workers[i].ID, C4_PlatformColumn(workers[i])>>)

C4_Witness ==
    /\ ExpectedRenderer = "table"
    /\ pc = "done"
    /\ faulty # "stdout"
    /\ Len(workers) = MaxWorkers
    /\ \E i \in 1..Len(workers) : Len(workers[i].Platforms) >= 2
    /\ Len(sink["stdout"]) = 1 + MaxWorkers

(***************************************************************************)
(* The verbose output, cut into the blocks of the workers: a block starts  *)
(* at an "ID:" line.  Rendered holds what the verbose renderer has         *)
(* produced so far, written out or still queued.                           *)
(***************************************************************************)
Rendered == sink["stdout"] \o tw

Positions(lines, fmts) == Ascending({i \in 1..Len(lines) : lines[i].fmt \in fmts})

BlockStarts == Positions(Rendered, {"ID:\t%s\n"})

Block(k) ==
    SubSeq(Rendered, BlockStarts[k],
           IF k < Len(BlockStarts) THEN BlockStarts[k + 1] - 1 ELSE Len(Rendered))

\* The lines of a sequence whose format is one of fmts, in their order.
Select(lines, fmts) == LET ps == Positions(lines, fmts) IN [i \in 1..Len(ps) |-> lines[ps[i]]]

\* The first arguments of the lines that follow position p while their
\* format is fmt.
RECURSIVE RunAfter(_, _, _)
RunAfter(lines, p, fmt) ==
    IF p + 1 <= Len(lines) /\ lines[p + 1].fmt = fmt
    THEN <<lines[p + 1].args[1]>> \o RunAfter(lines, p + 1, fmt)
    ELSE <<>>

StrictlyAscending(ks) == \A i \in 1..(Len(ks) - 1) : KeyLess(ks[i], ks[i + 1])

SortedKeysOf(ks, m) ==
    /\ StrictlyAscending(ks)
    /\ {ks[i] : i \in 1..Len(ks)} = DOMAIN m
    /\ Len(ks) = Cardinality(DOMAIN m)

LabelFmt == "\t%s:\t%s\n"
AnnotationFmt == "\tAnnotations:\t%s:\t%s\n"
NameFmt == "\tName:\t%s\n"
OnDemandFmt == "\tOnDemand:\t%v\n"
AutoAllowFmt == "\tAutoAllow:\t%v\n"

InVerbose == ExpectedRenderer = "verbose"

RECURSIVE C5_AnnotationCount(_)
C5_AnnotationCount(ds) ==
    IF ds = <<>> THEN 0
    ELSE Cardinality(DOMAIN Head(ds).Annotations) + C5_AnnotationCount(Tail(ds))

C5_BlockSorted(k) ==
    LET b == Block(k)
        hs == Positions(b, {"Labels:\n"})
        ns == Positions(b, {NameFmt})
    IN /\ Len(hs) = 1
       /\ SortedKeysOf(RunAfter(b, hs[1], LabelFmt), workers[k].Labels)
       /\ Len(Select(b, {LabelFmt})) = Cardinality(DOMAIN workers[k].Labels)
       /\ Len(ns) = Len(workers[k].CDIDevices)
       /\ \A j \in 1..Len(ns) :
              SortedKeysOf(RunAfter(b, ns[j] + 1, AnnotationFmt),
                           workers[k].CDIDevices[j].Annotations)
       /\ Len(Select(b, {AnnotationFmt})) = C5_AnnotationCount(workers[k].CDIDevices)

\* C5: in verbose mode every worker has one "Labels:" line, printed also for
\* an empty mapping, and the label lines that follow it are one per label
\* key in strictly ascending key order, whatever the iteration order of the
\* mapping; the annotation lines of every device are sorted the same way.
C5_SortedLabels ==
    InVerbose =>
        /\ (faulty # "stdout" \/ flushes = 0) => Len(BlockStarts) = idx - 1
        /\ \A k \in 1..Len(BlockStarts) : C5_BlockSorted(k)

C5_Witness ==
    /\ InVerbose
    /\ pc = "done"
    /\ Len(BlockStarts) = MaxWorkers
    /\ \E k \in 1..Len(workers) : Cardinality(DOMAIN workers[k].Labels) = Len(KeyOrder)
    /\ \E k \in 1..Len(BlockStarts) : Len(Select(Block(k), {LabelFmt})) = Len(KeyOrder)

C6_BlockDevices(k) ==
    LET b == Block(k)
        ds == workers[k].CDIDevices
        ns == Positions(b, {NameFmt})
        blanks == Positions(b, {"\n"})
    IN /\ Len(ns) = Len(ds)
       /\ Len(Select(b, {OnDemandFmt, AutoAllowFmt})) = Len(ds)
       /\ \A j \in 1..Len(ns) :
              /\ ns[j] + 1 <= Len(b)
              /\ b[ns[j] + 1].fmt = (IF ds[j].OnDemand THEN OnDemandFmt ELSE AutoAllowFmt)
       /\ Len(Select(b, {"Devices:\n"})) = (IF Len(ds) > 0 THEN 1 ELSE 0)
       /\ Len(blanks) = (IF Len(ds) > 0 THEN 2 ELSE 1)
       /\ Len(ds) > 0 => /\ blanks[1] > ns[Len(ns)]
                         /\ Positions(b, {"Devices:\n"})[1] < ns[1]
                         /\ \A i \in (blanks[1] + 1)..Len(b) :
                                b[i].fmt \notin {NameFmt, OnDemandFmt, AutoAllowFmt, AnnotationFmt}

\* C6: in verbose mode every device prints, right after its "Name:" line,
\* exactly one admission line: "OnDemand:" when onDemand is true, whatever
\* autoAllow is, and "AutoAllow:" otherwise.  The "Devices:" line and the
\* blank line that closes the section are printed if and only if the worker
\* has a device.
C6_OneAdmissionLine ==
    InVerbose => \A k \in 1..Len(BlockStarts) : C6_BlockDevices(k)

C6_Witness ==
    /\ InVerbose
    /\ pc = "done"
    /\ Len(BlockStarts) = MaxWorkers
    /\ \E k \in 1..Len(workers) :
          /\ Len(workers[k].CDIDevices) = MaxDevices
          /\ \E j \in 1..MaxDevices : workers[k].CDIDevices[j].OnDemand
                                          /\ workers[k].CDIDevices[j].AutoAllow
          /\ Len(Select(Block(k), {OnDemandFmt})) >= 1

RuleFmts == {"GC Policy rule#%d:\n", "\tAll:\t%v\n", "\tFilters:\t%s\n",
             "\tKeep duration:\t%v\n", "\tReserved space:\t%g\n",
             "\tMinimum free space:\t%g\n", "\tMaximum used space:\t%g\n"}

C7_Optional(present, fmt) == IF present THEN <<fmt>> ELSE <<>>

C7_RuleFormats(rule) ==
    <<"GC Policy rule#%d:\n", "\tAll:\t%v\n">>
    \o C7_Optional(rule.Filter # <<>>, "\tFilters:\t%s\n")
    \o C7_Optional(rule.KeepDuration # 0, "\tKeep duration:\t%v\n")
    \o C7_Optional(rule.ReservedSpace # 0, "\tReserved space:\t%g\n")
    \o C7_Optional(rule.MinFreeSpace # 0, "\tMinimum free space:\t%g\n")
    \o C7_Optional(rule.MaxUsedSpace # 0, "\tMaximum used space:\t%g\n")

C7_BlockRules(k) ==
    LET b == Block(k)
        rs == workers[k].GCPolicy
        ls == Select(b, RuleFmts)
        hs == Select(b, {"GC Policy rule#%d:\n"})
        want == Flatten([i \in 1..Len(rs) |-> C7_RuleFormats(rs[i])])
    IN /\ [i \in 1..Len(ls) |-> ls[i].fmt] = want
       /\ [i \in 1..Len(hs) |-> hs[i].args] = [i \in 1..Len(rs) |-> <<ToString(i - 1)>>]

\* C7: in verbose mode every GC rule prints, in the order of the rules and
\* numbered from 0, its "GC Policy rule#<index>:" line and an "All:" line,
\* and then "Filters:" iff it has a filter, "Keep duration:" iff
\* keepDuration is not zero, "Reserved space:", "Minimum free space:" and
\* "Maximum used space:" iff the byte count is not zero: a rule with
\* nothing set prints the "All:" line only.
C7_RuleLines ==
    InVerbose => \A k \in 1..Len(BlockStarts) : C7_BlockRules(k)

C7_Witness ==
    /\ InVerbose
    /\ pc = "done"
    /\ Len(BlockStarts) = MaxWorkers
    /\ \E k \in 1..Len(workers) :
          /\ Len(workers[k].GCPolicy) = MaxRules
          /\ workers[k].GCPolicy[1] = Rule(FALSE, <<>>, 0, 0, 0, 0)
          /\ workers[k].GCPolicy[MaxRules].MaxUsedSpace # 0
          /\ Len(Select(Block(k), {"\tAll:\t%v\n"})) = MaxRules
          /\ Len(Select(Block(k), {"\tMaximum used space:\t%g\n"})) = 1

\* C8: in template mode the template is executed once per call, with the
\* whole worker set as its value, and on success the writer holds the
\* expansion followed by one newline ("{{len .}}" gives the number of
\* workers and a newline).  A template that does not parse fails the call
\* with nothing written; an expansion that fails fails the call, with no
\* newline appended and with what was written before left in place.
C8_Template ==
    ExpectedRenderer = "template" =>
        /\ executions <= 1
        /\ (pc = "done" /\ err = "nil") =>
              /\ executions = 1
              /\ sink[appWriter] # <<>>
              /\ sink[appWriter][Len(sink[appWriter])] = Newline
              /\ Len(Select(sink[appWriter], {"\n"})) = 1
              /\ format = "{{len .}}" =>
                    sink[appWriter] = <<Text(ToString(Len(workers))), Newline>>
              /\ format = "{{range .}}{{.ID}} {{end}}" =>
                    sink[appWriter] =
                        Flatten([i \in 1..Len(workers) |-> <<Text(workers[i].ID), Text(" ")>>])
                        \o <<Newline>>
        /\ (pc = "done" /\ format = "{{len .") =>
              /\ err # "nil"
              /\ executions = 0
              /\ sink = NoOutput
        /\ (pc = "done" /\ format = "workers: {{.Nope}}") =>
              /\ err # "nil"
              /\ executions = 1
              /\ Select(sink[appWriter], {"\n"}) = <<>>
              /\ faulty # appWriter => sink[appWriter] = <<Text("workers: ")>>

C8_Witness ==
    /\ pc = "done"
    /\ format = "{{len .}}"
    /\ err = "nil"
    /\ Len(workers) = MaxWorkers
    /\ sink[appWriter] = <<Text(ToString(MaxWorkers)), Newline>>

C10_SameResult ==
    (calls = 2 /\ pc = "done") => (sink = first.out /\ err = first.err)

\* C10: a second call on the same worker set and configuration writes the
\* same output and returns the same error as the first, and no step of
\* either call changes the worker set.
C10_Pure == [](C10_SameResult) /\ [][workers' = workers]_vars

C10_Witness ==
    /\ calls = 2
    /\ pc = "done"
    /\ InVerbose
    /\ \E k \in 1..Len(workers) : Cardinality(DOMAIN workers[k].Labels) = Len(KeyOrder)
    /\ sink["stdout"] # <<>>
    /\ sink = first.out

=============================================================================
